---- MODULE Spec2Model ----
(***************************************************************************)
(* A model of fnstatus.py (Epic Games status and free-games monitor).      *)
(*                                                                         *)
(* JSON values and Python objects are tagged records [t |-> tag, v |-> x]: *)
(* "null" (None), "str", "num", "list" (v a sequence), "obj" (v a function *)
(* from keys to values) and "raise" (v the name of the exception raised). *)
(***************************************************************************)
EXTENDS Integers, Sequences, FiniteSets, TLC

VARIABLES pc, mode, poll_interval, cycle, last_eac_status, out, step, observed,
          interrupted, incidents, partitioned, recent, games, now, classified,
          comp_list, keyword_list, lookup

vars == <<pc, mode, poll_interval, cycle, last_eac_status, out, step, observed,
          interrupted, incidents, partitioned, recent, games, now, classified,
          comp_list, keyword_list, lookup>>

monitorVars == <<pc, mode, poll_interval, cycle, last_eac_status, out, step, observed, interrupted>>
incidentVars == <<incidents, partitioned, recent>>
gameVars == <<games, now, classified>>
findVars == <<comp_list, keyword_list, lookup>>

(***************************************************************************)
(* Python values                                                           *)
(***************************************************************************)
JNull == [t |-> "null"]
JStr(s) == [t |-> "str", v |-> s]
JNum(n) == [t |-> "num", v |-> n]
JList(s) == [t |-> "list", v |-> s]
JObj(f) == [t |-> "obj", v |-> f]
Raise(e) == [t |-> "raise", v |-> e]
IsRaise(x) == x.t = "raise"

\* bool(x): None, "", 0, [] and {} are false.
Truthy(x) ==
    CASE x.t = "null" -> FALSE
      [] x.t = "str" -> x.v /= ""
      [] x.t = "num" -> x.v /= 0
      [] x.t = "list" -> Len(x.v) > 0
      [] x.t = "obj" -> DOMAIN x.v /= {}
      [] OTHER -> TRUE

\* x.get(key, default): only a dict has .get; a present key wins over the
\* default even when its value is None.
Get(x, key, default) ==
    IF x.t /= "obj" THEN Raise("AttributeError")
    ELSE IF key \in DOMAIN x.v THEN x.v[key] ELSE default

\* iter(x): the sequence a for loop walks, or TypeError.  A str yields its
\* characters and a dict its keys, both str objects.  An exception raised
\* while computing x is passed on.
RECURSIVE CharsOf(_)
CharsOf(s) == IF s = "" THEN <<>> ELSE <<JStr(SubSeq(s, 1, 1))>> \o CharsOf(SubSeq(s, 2, Len(s)))

RECURSIVE SetToSeq(_)
SetToSeq(S) == IF S = {} THEN <<>> ELSE LET e == CHOOSE e \in S : TRUE IN <<JStr(e)>> \o SetToSeq(S \ {e})

Iter(x) ==
    CASE x.t = "raise" -> x
      [] x.t = "list" -> x
      [] x.t = "str" -> JList(CharsOf(x.v))
      [] x.t = "obj" -> JList(SetToSeq(DOMAIN x.v))
      [] OTHER -> Raise("TypeError")

(***************************************************************************)
(* str methods                                                             *)
(***************************************************************************)
UpperChars == "ABCDEFGHIJKLMNOPQRSTUVWXYZ"
LowerChars == "abcdefghijklmnopqrstuvwxyz"

\* The lower-case letter of each upper-case one.
LowerOf ==
    LET t == [c \in {SubSeq(UpperChars, i, i) : i \in 1..Len(UpperChars)} |->
                 SubSeq(LowerChars, CHOOSE i \in 1..Len(UpperChars) : SubSeq(UpperChars, i, i) = c,
                                    CHOOSE i \in 1..Len(UpperChars) : SubSeq(UpperChars, i, i) = c)]
    IN IF t = t THEN t ELSE t

LowerChar(c) == IF c \in DOMAIN LowerOf THEN LowerOf[c] ELSE c

RECURSIVE Lower(_)
Lower(s) == IF s = "" THEN "" ELSE LowerChar(SubSeq(s, 1, 1)) \o Lower(SubSeq(s, 2, Len(s)))

\* The characters str.strip() removes (those that occur in ASCII text).
Whitespace == {" ", "\t", "\n", "\r"}

RECURSIVE LStrip(_)
LStrip(s) == IF s /= "" /\ SubSeq(s, 1, 1) \in Whitespace THEN LStrip(SubSeq(s, 2, Len(s))) ELSE s

RECURSIVE RStrip(_)
RStrip(s) ==
    IF s /= "" /\ SubSeq(s, Len(s), Len(s)) \in Whitespace THEN RStrip(SubSeq(s, 1, Len(s) - 1)) ELSE s

Strip(s) == RStrip(LStrip(s))

\* sub in s
Contains(sub, s) == \E i \in 1..(Len(s) + 1) : i + Len(sub) - 1 <= Len(s) /\ SubSeq(s, i, i + Len(sub) - 1) = sub

(***************************************************************************)
(* make_request.  net is what the network does with the GET: kind "ok"     *)
(* with the decoded body, one of the requests/json exceptions, or          *)
(* KeyboardInterrupt when SIGINT arrives while the call blocks.            *)
(***************************************************************************)
Net(kind, body) == [kind |-> kind, body |-> body]
FetchFailures == {"Timeout", "ConnectionError", "HTTPError", "JSONDecodeError"}

\* make_request without its "except requests.exceptions.Timeout" clause and
\* the final catch-all.
make_request_timeout_escapes(net) ==
    CASE net.kind = "ok" -> net.body
      [] net.kind = "Timeout" -> Raise("Timeout")
      [] net.kind = "KeyboardInterrupt" -> Raise("KeyboardInterrupt")
      [] OTHER -> JNull

make_request(net) ==
    CASE net.kind = "ok" -> net.body
      [] net.kind = "Timeout" -> JNull
      [] net.kind = "ConnectionError" -> JNull
      [] net.kind = "HTTPError" -> JNull
      [] net.kind = "JSONDecodeError" -> JNull
      [] net.kind = "KeyboardInterrupt" -> Raise("KeyboardInterrupt")   \* not an Exception
      [] OTHER -> JNull                                                 \* except Exception

(***************************************************************************)
(* get_component_by_keywords and print_service_status                      *)
(***************************************************************************)
\* The loop of lines 88-91 without keyword.lower().
RECURSIVE ScanComponents_case_sensitive(_, _, _)
ScanComponents_case_sensitive(comps, keywords, i) ==
    IF i > Len(comps) THEN JNull
    ELSE LET comp == comps[i]
             name == Get(comp, "name", JStr(""))
         IN IF IsRaise(name) THEN name
            ELSE IF name.t /= "str" THEN Raise("AttributeError")
            ELSE IF \E k \in 1..Len(keywords) : Contains(keywords[k], Lower(Strip(name.v)))
                 THEN comp
                 ELSE ScanComponents_case_sensitive(comps, keywords, i + 1)

RECURSIVE ScanComponents(_, _, _)
ScanComponents(comps, keywords, i) ==
    IF i > Len(comps) THEN JNull
    ELSE LET comp == comps[i]
             name == Get(comp, "name", JStr(""))
         IN IF IsRaise(name) THEN name
            ELSE IF name.t /= "str" THEN Raise("AttributeError")     \* .strip() of a non-str
            ELSE IF \E k \in 1..Len(keywords) : Contains(Lower(keywords[k]), Lower(Strip(name.v)))
                 THEN comp
                 ELSE ScanComponents(comps, keywords, i + 1)

get_component_by_keywords(components, keywords) ==
    LET it == Iter(components)
    IN IF IsRaise(it) THEN it ELSE ScanComponents(it.v, keywords, 1)

STATUS_MAP == {"operational", "degraded_performance", "partial_outage", "major_outage",
               "under_maintenance", "unknown"}

\* The tier printed for a component: [t |-> "printed", v |-> tier], or the
\* exception .lower() raises on a status that is not a str.
print_service_status(component) ==
    IF ~Truthy(component) THEN [t |-> "printed", v |-> "NOT FOUND"]
    ELSE LET status == Get(component, "status", JStr("unknown"))
         IN IF IsRaise(status) THEN status
            ELSE IF status.t /= "str" THEN Raise("AttributeError")
            ELSE [t |-> "printed",
                  v |-> IF Lower(status.v) \in STATUS_MAP THEN Lower(status.v) ELSE "unknown"]

(***************************************************************************)
(* display_system_status                                                   *)
(***************************************************************************)
services == <<
    <<"fortnite">>,
    <<"store", "epic games store">>,
    <<"login", "account", "authentication", "auth">>,
    <<"matchmaking", "game services", "lobby">>,
    <<"friends", "social">>,
    <<"cloud save", "save">>,
    <<"download", "launcher">>,
    <<"payment", "purchase">>,
    <<"support", "help">>,
    <<"rocket league">>,
    <<"fall guys">> >>

\* A section's result: outcome "rendered", "unavailable" (the fetch gave
\* nothing usable and the section said so) or "raised" with the exception.
Rendered == [outcome |-> "rendered", exc |-> "none"]
Unavailable == [outcome |-> "unavailable", exc |-> "none"]
Raised(e) == [outcome |-> "raised", exc |-> e.v]

RECURSIVE PrintServices(_, _)
PrintServices(components, i) ==
    IF i > Len(services) THEN Rendered
    ELSE LET component == get_component_by_keywords(components, services[i])
         IN IF IsRaise(component) THEN Raised(component)
            ELSE LET printed == print_service_status(component)
                 IN IF IsRaise(printed) THEN Raised(printed)
                    ELSE PrintServices(components, i + 1)

display_system_status(net) ==
    LET status_data == make_request(net)
    IN IF IsRaise(status_data) THEN Raised(status_data)
       ELSE IF ~Truthy(status_data) THEN Unavailable
       ELSE LET components == Get(status_data, "components", JList(<<>>))
                page == Get(status_data, "page", JObj(<<>>))
            IN IF IsRaise(components) THEN Raised(components)
               ELSE LET overall_status == Get(page, "indicator", JStr("none"))
                    IN IF IsRaise(overall_status) THEN Raised(overall_status)
                       ELSE PrintServices(components, 1)

(***************************************************************************)
(* display_components_detailed                                             *)
(***************************************************************************)
Empty == [outcome |-> "empty", exc |-> "none"]

\* f"{name:<35}": NoneType, list and dict reject a non-empty format spec.
FormatOk(name) == name.t \in {"str", "num"}

\* The grouping loop: the names of the operational components and of those
\* with issues, or the exception a malformed record raises.
RECURSIVE GroupComponents(_, _, _, _)
GroupComponents(comps, i, operational, issues) ==
    IF i > Len(comps) THEN [t |-> "groups", operational |-> operational, issues |-> issues]
    ELSE LET name == Get(comps[i], "name", JStr("Unknown Component"))
             status == Get(comps[i], "status", JStr("unknown"))
         IN IF IsRaise(name) THEN name
            ELSE IF status.t /= "str" THEN Raise("AttributeError")
            ELSE IF Lower(status.v) = "operational"
                 THEN GroupComponents(comps, i + 1, Append(operational, name), issues)
                 ELSE GroupComponents(comps, i + 1, operational, Append(issues, name))

display_components_detailed(net) ==
    LET components_data == make_request(net)
    IN IF IsRaise(components_data) THEN Raised(components_data)
       ELSE IF ~Truthy(components_data) THEN Unavailable
       ELSE LET components == Get(components_data, "components", JList(<<>>))
            IN IF IsRaise(components) THEN Raised(components)
               ELSE IF ~Truthy(components) THEN Empty
               ELSE LET it == Iter(components)
                    IN IF IsRaise(it) THEN Raised(it)
                       ELSE LET g == GroupComponents(it.v, 1, <<>>, <<>>)
                            IN IF IsRaise(g) THEN Raised(g)
                               ELSE IF \E k \in 1..Len(g.issues) : ~FormatOk(g.issues[k])
                                    THEN Raised(Raise("TypeError"))
                               ELSE IF Len(g.operational) <= 5
                                    THEN IF \E k \in 1..Len(g.operational) : ~FormatOk(g.operational[k])
                                         THEN Raised(Raise("TypeError"))
                                         ELSE Rendered
                               ELSE IF \E k \in 1..3 : g.operational[k].t /= "str"   \* ', '.join
                                    THEN Raised(Raise("TypeError"))
                                    ELSE Rendered

(***************************************************************************)
(* display_easy_anticheat_status                                           *)
(***************************************************************************)
eac_keywords == <<"anti", "cheat", "eac", "easy anti", "anticheat">>
eac_incident_keywords == <<"anti", "cheat", "eac", "anticheat">>

NoChange == <<>>

eac_compare_no_store(eac_component, last) ==
    IF ~Truthy(eac_component)
    THEN [status |-> "notfound", exc |-> "none", change |-> NoChange, last |-> last, current |-> JNull, observed |-> FALSE]
    ELSE LET printed == print_service_status(eac_component)
             current_status == Get(eac_component, "status", JStr("unknown"))
         IN IF IsRaise(printed)
            THEN [status |-> "raised", exc |-> printed.v, change |-> NoChange, last |-> last, current |-> JNull, observed |-> FALSE]
            ELSE [status |-> "rendered", exc |-> "none",
                  change |-> IF Truthy(last) /\ last /= current_status
                             THEN <<last, current_status>> ELSE NoChange,
                  last |-> last, current |-> current_status, observed |-> TRUE]

\* Lines 209-220 on the component found: what is reported and what is stored.
\* status: "rendered" | "notfound" | "raised"; change: <<from, to>> or NoChange.
eac_compare(eac_component, last) ==
    IF ~Truthy(eac_component)
    THEN [status |-> "notfound", exc |-> "none", change |-> NoChange, last |-> last, current |-> JNull, observed |-> FALSE]
    ELSE LET printed == print_service_status(eac_component)
             current_status == Get(eac_component, "status", JStr("unknown"))
         IN IF IsRaise(printed)
            THEN [status |-> "raised", exc |-> printed.v, change |-> NoChange, last |-> last, current |-> JNull, observed |-> FALSE]
            ELSE [status |-> "rendered", exc |-> "none",
                  change |-> IF Truthy(last) /\ last /= current_status
                             THEN <<last, current_status>> ELSE NoChange,
                  last |-> current_status, current |-> current_status, observed |-> TRUE]

\* Lines 203-220: the component half of the section.  With nothing fetched
\* the half is skipped ("unavailable"): the only message is the one
\* make_request printed.
eac_status_part(net, last) ==
    LET status_data == make_request(net)
        quiet(st, e) == [status |-> st, exc |-> e, change |-> NoChange, last |-> last, current |-> JNull, observed |-> FALSE]
    IN IF IsRaise(status_data) THEN quiet("raised", status_data.v)
       ELSE IF ~Truthy(status_data) THEN quiet("unavailable", "none")
       ELSE LET components == Get(status_data, "components", JList(<<>>))
            IN IF IsRaise(components) THEN quiet("raised", components.v)
               ELSE LET eac_component == get_component_by_keywords(components, eac_keywords)
                    IN IF IsRaise(eac_component) THEN quiet("raised", eac_component.v)
                       ELSE eac_compare(eac_component, last)

\* any(keyword in text for keyword in [...])
AnyKeyword(keywords, text) == \E k \in 1..Len(keywords) : Contains(keywords[k], text)

\* The inner loop over an incident's updates: TRUE when one mentions EAC.
RECURSIVE ScanUpdates(_, _)
ScanUpdates(updates, j) ==
    IF j > Len(updates) THEN [t |-> "bool", v |-> FALSE]
    ELSE LET body == Get(updates[j], "body", JStr(""))
         IN IF IsRaise(body) THEN body
            ELSE IF body.t /= "str" THEN Raise("AttributeError")
            ELSE IF AnyKeyword(eac_incident_keywords, Lower(body.v)) THEN [t |-> "bool", v |-> TRUE]
            ELSE ScanUpdates(updates, j + 1)

RECURSIVE ScanIncidents(_, _, _)
ScanIncidents(incs, i, eac_incidents) ==
    IF i > Len(incs) THEN JList(eac_incidents)
    ELSE LET name == Get(incs[i], "name", JStr(""))
             updates == Get(incs[i], "incident_updates", JList(<<>>))
         IN IF IsRaise(name) THEN name
            ELSE IF name.t /= "str" THEN Raise("AttributeError")
            ELSE IF AnyKeyword(eac_incident_keywords, Lower(name.v))
                 THEN ScanIncidents(incs, i + 1, Append(eac_incidents, incs[i]))
            ELSE LET it == Iter(updates)
                 IN IF IsRaise(it) THEN it
                    ELSE LET hit == ScanUpdates(it.v, 1)
                         IN IF IsRaise(hit) THEN hit
                            ELSE ScanIncidents(incs, i + 1,
                                     IF hit.v THEN Append(eac_incidents, incs[i]) ELSE eac_incidents)

\* Lines 223-249: the incidents half of the section.
eac_incidents_part(net) ==
    LET incidents_data == make_request(net)
    IN IF IsRaise(incidents_data) THEN Raised(incidents_data)
       ELSE IF ~Truthy(incidents_data) THEN Unavailable
       ELSE LET incs == Get(incidents_data, "incidents", JList(<<>>))
            IN IF IsRaise(incs) THEN Raised(incs)
               ELSE LET it == Iter(incs)
                    IN IF IsRaise(it) THEN Raised(it)
                       ELSE LET found == ScanIncidents(it.v, 1, <<>>)
                            IN IF IsRaise(found) THEN Raised(found)
                               ELSE IF \E k \in 1..Len(found.v) :
                                          k <= 3 /\ Get(found.v[k], "status", JStr("unknown")).t /= "str"
                                    THEN Raised(Raise("AttributeError"))    \* .title()
                                    ELSE Rendered

\* The whole section: the component half, then (unless it raised) the
\* incidents half.
display_easy_anticheat_status(net1, net2, last) ==
    LET a == eac_status_part(net1, last)
    IN IF a.status = "raised"
       THEN [status |-> a, incidents |-> [outcome |-> "notrun", exc |-> "none"]]
       ELSE [status |-> a, incidents |-> eac_incidents_part(net2)]

(***************************************************************************)
(* display_incident_reports                                                *)
(***************************************************************************)
\* Characters in code point order, for str comparison.
CharOrder == " +-.0123456789:ABCDEFGHIJKLMNOPQRSTUVWXYZabcdefghijklmnopqrstuvwxyz"
Ord(c) == CHOOSE i \in 1..Len(CharOrder) : SubSeq(CharOrder, i, i) = c

\* a < b for str: lexicographic.
RECURSIVE StrLess(_, _)
StrLess(a, b) ==
    IF b = "" THEN FALSE
    ELSE IF a = "" THEN TRUE
    ELSE LET ca == Ord(SubSeq(a, 1, 1))
             cb == Ord(SubSeq(b, 1, 1))
         IN IF ca /= cb THEN ca < cb
            ELSE StrLess(SubSeq(a, 2, Len(a)), SubSeq(b, 2, Len(b)))

\* x <= y for two sort keys of one type.
KeyLeq(x, y) == IF x.t = "num" THEN x.v <= y.v ELSE ~StrLess(y.v, x.v)

\* The condition of line 262 with "or" in the place of "and".
IsActive_or(i) == ~Truthy(Get(i, "resolved_at", JNull)) \/ Get(i, "status", JNull) /= JStr("resolved")

IsActive(i) == ~Truthy(Get(i, "resolved_at", JNull)) /\ Get(i, "status", JNull) /= JStr("resolved")

IsResolved(i) == Truthy(Get(i, "resolved_at", JNull)) \/ Get(i, "status", JNull) = JStr("resolved")

RECURSIVE Filter(_, _, _)
Filter(incs, keep, i) ==
    IF i > Len(incs) THEN <<>>
    ELSE IF keep[i] THEN <<incs[i]>> \o Filter(incs, keep, i + 1)
    ELSE Filter(incs, keep, i + 1)

\* Line 262: [i for i in incidents if not i.get("resolved_at") and
\* i.get("status") != "resolved"].  i.get raises on a non-dict element.
active_incidents(incs) ==
    IF \E k \in 1..Len(incs) : incs[k].t /= "obj" THEN Raise("AttributeError")
    ELSE JList(Filter(incs, [k \in 1..Len(incs) |-> IsActive(incs[k])], 1))

\* Line 290: [i for i in incidents if i.get("resolved_at") or
\* i.get("status") == "resolved"].
resolved_incidents(incs) ==
    IF \E k \in 1..Len(incs) : incs[k].t /= "obj" THEN Raise("AttributeError")
    ELSE JList(Filter(incs, [k \in 1..Len(incs) |-> IsResolved(incs[k])], 1))

SortKey(i) == Get(i, "resolved_at", JStr(""))

\* x goes before the first element whose key is <= its own: the elements
\* already placed came later in the input, so equal keys keep input order.
RECURSIVE InsertDesc(_, _)
InsertDesc(x, sorted) ==
    IF sorted = <<>> THEN <<x>>
    ELSE IF KeyLeq(SortKey(Head(sorted)), SortKey(x)) THEN <<x>> \o sorted
    ELSE <<Head(sorted)>> \o InsertDesc(x, Tail(sorted))

RECURSIVE SortDesc(_)
SortDesc(s) == IF s = <<>> THEN <<>> ELSE InsertDesc(Head(s), SortDesc(Tail(s)))

Take(s, n) == SubSeq(s, 1, IF Len(s) < n THEN Len(s) ELSE n)

RESOLVED_LIMIT == 3

\* Line 291: sorted(resolved, key=lambda x: x.get("resolved_at", ""),
\* reverse=True)[:3].  With two or more elements every key is compared with
\* another, and "<" raises TypeError unless both are str (or both numbers).
recent_resolved(resolved) ==
    IF Len(resolved) >= 2 /\ ~(\/ \A k \in 1..Len(resolved) : SortKey(resolved[k]).t = "str"
                               \/ \A k \in 1..Len(resolved) : SortKey(resolved[k]).t = "num")
    THEN Raise("TypeError")
    ELSE JList(Take(SortDesc(resolved), RESOLVED_LIMIT))

\* Lines 267-287 for one active incident: the exception it raises, or "none".
ActiveRowExc(i) ==
    LET impact == Get(i, "impact", JStr("unknown"))
        status == Get(i, "status", JStr("unknown"))
        updates == Get(i, "incident_updates", JList(<<>>))
    IN IF impact.t /= "str" THEN "AttributeError"          \* .upper()
       ELSE IF status.t /= "str" THEN "AttributeError"     \* .title()
       ELSE IF ~Truthy(updates) THEN "none"
       ELSE IF updates.t = "obj" THEN "KeyError"           \* updates[0]
       ELSE IF updates.t = "num" THEN "TypeError"
       ELSE LET latest == IF updates.t = "str" THEN JStr(SubSeq(updates.v, 1, 1)) ELSE updates.v[1]
                body == Get(latest, "body", JStr("No details"))
            IN IF IsRaise(body) THEN "AttributeError"
               ELSE IF body.t \notin {"str", "list"} THEN "TypeError"   \* body[:100]
               ELSE "none"

\* Lines 297-298: the try block that formats resolved_at is entered.
FormatsResolvedTime(i) ==
    LET resolved_time == Get(i, "resolved_at", JStr("Unknown"))
    IN Truthy(resolved_time) /\ resolved_time /= JStr("Unknown")

IncidentResult(outcome, exc, active, resolved, rec) ==
    [outcome |-> outcome, exc |-> exc, active |-> active, resolved |-> resolved, recent |-> rec,
     formats |-> \E k \in 1..Len(rec) : FormatsResolvedTime(rec[k])]

\* Lines 261-305 on the decoded "incidents" value.
report_incidents(incs) ==
    LET it == Iter(incs)
    IN IF IsRaise(it) THEN IncidentResult("raised", it.v, <<>>, <<>>, <<>>)
       ELSE LET active == active_incidents(it.v)
            IN IF IsRaise(active) THEN IncidentResult("raised", active.v, <<>>, <<>>, <<>>)
               ELSE IF \E k \in 1..Len(active.v) : k <= 5 /\ ActiveRowExc(active.v[k]) /= "none"
                    THEN LET k == CHOOSE k \in 1..Len(active.v) :
                                      /\ ActiveRowExc(active.v[k]) /= "none"
                                      /\ \A j \in 1..(k - 1) : ActiveRowExc(active.v[j]) = "none"
                         IN IncidentResult("raised", ActiveRowExc(active.v[k]), active.v, <<>>, <<>>)
               ELSE LET resolved == resolved_incidents(it.v)
                        rec == recent_resolved(resolved.v)
                    IN IF IsRaise(rec) THEN IncidentResult("raised", rec.v, active.v, resolved.v, <<>>)
                       ELSE IncidentResult("rendered", "none", active.v, resolved.v, rec.v)

display_incident_reports(net) ==
    LET incidents_data == make_request(net)
    IN IF IsRaise(incidents_data) THEN IncidentResult("raised", incidents_data.v, <<>>, <<>>, <<>>)
       ELSE IF ~Truthy(incidents_data) THEN IncidentResult("unavailable", "none", <<>>, <<>>, <<>>)
       ELSE LET incs == Get(incidents_data, "incidents", JList(<<>>))
            IN IF IsRaise(incs) THEN IncidentResult("raised", incs.v, <<>>, <<>>, <<>>)
               ELSE report_incidents(incs)

(***************************************************************************)
(* datetime: fromisoformat, aware/naive comparison, timedelta              *)
(*                                                                         *)
(* A datetime is [t |-> "dt", v |-> seconds, aware |-> BOOLEAN]; v counts  *)
(* whole seconds from 2024-01-01T00:00:00 (UTC when aware).                *)
(***************************************************************************)
Digits == "0123456789"
IsDigit(c) == \E i \in 1..10 : SubSeq(Digits, i, i) = c
DigitVal(c) == (CHOOSE i \in 1..10 : SubSeq(Digits, i, i) = c) - 1
AllDigits(s) == \A i \in 1..Len(s) : IsDigit(SubSeq(s, i, i))

RECURSIVE ParseInt(_)
ParseInt(s) == IF s = "" THEN 0
               ELSE 10 * ParseInt(SubSeq(s, 1, Len(s) - 1)) + DigitVal(SubSeq(s, Len(s), Len(s)))

\* s.replace('Z', '+00:00')
RECURSIVE ReplaceZ(_)
ReplaceZ(s) ==
    IF s = "" THEN ""
    ELSE (IF SubSeq(s, 1, 1) = "Z" THEN "+00:00" ELSE SubSeq(s, 1, 1)) \o ReplaceZ(SubSeq(s, 2, Len(s)))

IsLeap(y) == y % 4 = 0 /\ (y % 100 /= 0 \/ y % 400 = 0)
DaysInMonth(y, m) == IF m = 2 THEN (IF IsLeap(y) THEN 29 ELSE 28)
                     ELSE IF m \in {4, 6, 9, 11} THEN 30 ELSE 31
DaysBeforeYear(y) == 365 * (y - 1) + ((y - 1) \div 4) - ((y - 1) \div 100) + ((y - 1) \div 400)
RECURSIVE DaysBeforeMonth(_, _)
DaysBeforeMonth(y, m) == IF m = 1 THEN 0 ELSE DaysBeforeMonth(y, m - 1) + DaysInMonth(y, m - 1)
Ymd2Ord(y, m, d) == DaysBeforeYear(y) + DaysBeforeMonth(y, m) + d
EpochOrd == Ymd2Ord(2024, 1, 1)

Dt(v, aware) == [t |-> "dt", v |-> v, aware |-> aware]

\* "HH:MM:SS" or "HH:MM:SS.fff": seconds into the day, or -1.
ParseClock(c) ==
    IF /\ Len(c) \in {8, 12}
       /\ AllDigits(SubSeq(c, 1, 2)) /\ SubSeq(c, 3, 3) = ":"
       /\ AllDigits(SubSeq(c, 4, 5)) /\ SubSeq(c, 6, 6) = ":"
       /\ AllDigits(SubSeq(c, 7, 8))
       /\ (Len(c) = 12 => SubSeq(c, 9, 9) = "." /\ AllDigits(SubSeq(c, 10, 12)))
       /\ ParseInt(SubSeq(c, 1, 2)) < 24 /\ ParseInt(SubSeq(c, 4, 5)) < 60 /\ ParseInt(SubSeq(c, 7, 8)) < 60
    THEN ParseInt(SubSeq(c, 1, 2)) * 3600 + ParseInt(SubSeq(c, 4, 5)) * 60 + ParseInt(SubSeq(c, 7, 8))
    ELSE -1

\* "+HH:MM" or "-HH:MM": [ok, v] with v the offset in seconds.
ParseOffset(z) ==
    IF /\ Len(z) = 6 /\ SubSeq(z, 1, 1) \in {"+", "-"}
       /\ AllDigits(SubSeq(z, 2, 3)) /\ SubSeq(z, 4, 4) = ":" /\ AllDigits(SubSeq(z, 5, 6))
       /\ ParseInt(SubSeq(z, 2, 3)) < 24 /\ ParseInt(SubSeq(z, 5, 6)) < 60
    THEN [ok |-> TRUE,
          v |-> (IF SubSeq(z, 1, 1) = "-" THEN -1 ELSE 1)
                * (ParseInt(SubSeq(z, 2, 3)) * 3600 + ParseInt(SubSeq(z, 5, 6)) * 60)]
    ELSE [ok |-> FALSE, v |-> 0]

\* The position of the first "+" or "-" of the time part, or one past its end.
TzPos(rest) ==
    IF \E i \in 1..Len(rest) : SubSeq(rest, i, i) \in {"+", "-"}
    THEN CHOOSE i \in 1..Len(rest) :
             /\ SubSeq(rest, i, i) \in {"+", "-"}
             /\ \A j \in 1..(i - 1) : SubSeq(rest, j, j) \notin {"+", "-"}
    ELSE Len(rest) + 1

CombineDateTime(day0, clock, naive, off) ==
    IF clock < 0 THEN Raise("ValueError")
    ELSE IF naive THEN Dt(day0 + clock, FALSE)
    ELSE IF ~off.ok THEN Raise("ValueError")
    ELSE Dt(day0 + clock - off.v, TRUE)

SplitTime(day0, rest, zpos) ==
    CombineDateTime(day0, ParseClock(SubSeq(rest, 1, zpos - 1)), zpos > Len(rest),
                    ParseOffset(SubSeq(rest, zpos, Len(rest))))

FromDate(s, y, m, d) ==
    IF y < 1 \/ m < 1 \/ m > 12 THEN Raise("ValueError")
    ELSE IF d < 1 \/ d > DaysInMonth(y, m) THEN Raise("ValueError")
    ELSE IF Len(s) = 10 THEN Dt((Ymd2Ord(y, m, d) - EpochOrd) * 86400, FALSE)
    ELSE IF Len(s) = 11 THEN Raise("ValueError")
    ELSE SplitTime((Ymd2Ord(y, m, d) - EpochOrd) * 86400, SubSeq(s, 12, Len(s)), TzPos(SubSeq(s, 12, Len(s))))

\* datetime.fromisoformat on YYYY-MM-DD, optionally followed by a separator,
\* HH:MM:SS[.fff] and a +HH:MM / -HH:MM offset; ValueError otherwise (the
\* shorter time forms Python also takes are not among the inputs).
fromisoformat(s) ==
    IF ~(/\ Len(s) >= 10
         /\ AllDigits(SubSeq(s, 1, 4)) /\ SubSeq(s, 5, 5) = "-"
         /\ AllDigits(SubSeq(s, 6, 7)) /\ SubSeq(s, 8, 8) = "-"
         /\ AllDigits(SubSeq(s, 9, 10)))
    THEN Raise("ValueError")
    ELSE FromDate(s, ParseInt(SubSeq(s, 1, 4)), ParseInt(SubSeq(s, 6, 7)), ParseInt(SubSeq(s, 9, 10)))

\* a - b as a timedelta: days and seconds normalised so 0 <= seconds < 86400.
TimeDelta(a, b) == [days |-> (a - b) \div 86400, seconds |-> (a - b) % 86400]

(***************************************************************************)
(* display_free_games                                                      *)
(***************************************************************************)
Acc(free, upcoming) == [t |-> "acc", free |-> free, upcoming |-> upcoming]

\* offer.get("discountSetting", {}).get("discountPercentage", 0)
DiscountPct(offer) == Get(Get(offer, "discountSetting", JObj(<<>>)), "discountPercentage", JNum(0))

\* Lines 338-339: the offer counts while its end lies ahead.
CompareEnd_no_expiry(end_dt, gi, current_time, acc) ==
    IF IsRaise(end_dt) THEN end_dt
    ELSE IF ~end_dt.aware THEN Raise("TypeError")
    ELSE Acc(Append(acc.free, [game |-> gi, dt |-> end_dt]), acc.upcoming)

CompareEnd(end_dt, gi, current_time, acc) ==
    IF IsRaise(end_dt) THEN end_dt
    ELSE IF ~end_dt.aware THEN Raise("TypeError")            \* naive > aware
    ELSE IF end_dt.v > current_time
         THEN Acc(Append(acc.free, [game |-> gi, dt |-> end_dt]), acc.upcoming)
         ELSE acc

\* Lines 333-339 for one offer of game gi: the lists after it, or the
\* exception raised.
AddCurrent(discount_pct, end_date, gi, current_time, acc) ==
    IF IsRaise(discount_pct) THEN discount_pct
    ELSE IF discount_pct /= JNum(0) THEN acc
    ELSE IF ~Truthy(end_date) THEN acc
    ELSE IF end_date.t /= "str" THEN Raise("AttributeError")  \* .replace
    ELSE CompareEnd(fromisoformat(ReplaceZ(end_date.v)), gi, current_time, acc)

current_offer(offer, gi, current_time, acc) ==
    AddCurrent(DiscountPct(offer), Get(offer, "endDate", JNull), gi, current_time, acc)

\* Line 349: no comparison with the current time.
AppendStart_future_only(start_dt, gi, current_time, acc) ==
    IF IsRaise(start_dt) THEN start_dt
    ELSE IF start_dt.v > current_time
         THEN Acc(acc.free, Append(acc.upcoming, [game |-> gi, dt |-> start_dt]))
         ELSE acc

AppendStart(start_dt, gi, current_time, acc) ==
    IF IsRaise(start_dt) THEN start_dt
    ELSE Acc(acc.free, Append(acc.upcoming, [game |-> gi, dt |-> start_dt]))

\* Lines 344-349 for one offer of game gi.
AddUpcoming(discount_pct, start_date, gi, current_time, acc) ==
    IF IsRaise(discount_pct) THEN discount_pct
    ELSE IF discount_pct /= JNum(0) THEN acc
    ELSE IF ~Truthy(start_date) THEN acc
    ELSE IF start_date.t /= "str" THEN Raise("AttributeError")
    ELSE AppendStart(fromisoformat(ReplaceZ(start_date.v)), gi, current_time, acc)

upcoming_offer(offer, gi, current_time, acc) ==
    AddUpcoming(DiscountPct(offer), Get(offer, "startDate", JNull), gi, current_time, acc)

\* for offer in offer_set.get("promotionalOffers", [])
RECURSIVE FoldOffers(_, _, _, _, _, _)
FoldOffers(offers, k, current, gi, current_time, acc) ==
    IF IsRaise(acc) \/ k > Len(offers) THEN acc
    ELSE FoldOffers(offers, k + 1, current, gi, current_time,
                    IF current THEN current_offer(offers[k], gi, current_time, acc)
                    ELSE upcoming_offer(offers[k], gi, current_time, acc))

IterOffers(it, current, gi, current_time, acc) ==
    IF IsRaise(it) THEN it ELSE FoldOffers(it.v, 1, current, gi, current_time, acc)

\* for offer_set in promotional_offers / upcoming_offers
RECURSIVE FoldSets(_, _, _, _, _, _)
FoldSets(sets, j, current, gi, current_time, acc) ==
    IF IsRaise(acc) \/ j > Len(sets) THEN acc
    ELSE FoldSets(sets, j + 1, current, gi, current_time,
                  IterOffers(Iter(Get(sets[j], "promotionalOffers", JList(<<>>))),
                             current, gi, current_time, acc))

IterSets(it, current, gi, current_time, acc) ==
    IF IsRaise(acc) THEN acc
    ELSE IF IsRaise(it) THEN it
    ELSE FoldSets(it.v, 1, current, gi, current_time, acc)

\* Lines 324-349 for game gi.
ClassifyPromotions(promotions, gi, current_time, acc) ==
    IF IsRaise(promotions) THEN promotions
    ELSE IF ~Truthy(promotions) THEN acc
    ELSE IF promotions.t /= "obj" THEN Raise("AttributeError")
    ELSE IterSets(Iter(Get(promotions, "upcomingPromotionalOffers", JList(<<>>))), FALSE, gi, current_time,
                  IterSets(Iter(Get(promotions, "promotionalOffers", JList(<<>>))), TRUE, gi, current_time, acc))

classify_game(game, gi, current_time, acc) ==
    ClassifyPromotions(Get(game, "promotions", JNull), gi, current_time, acc)

\* for game in games
RECURSIVE FoldGames(_, _, _, _)
FoldGames(gs, i, current_time, acc) ==
    IF IsRaise(acc) \/ i > Len(gs) THEN acc
    ELSE FoldGames(gs, i + 1, current_time, classify_game(gs[i], i, current_time, acc))

\* Lines 357-366: the row printed for a current free game.
Row(days_left, hours_left) ==
    [days |-> days_left, hours |-> hours_left,
     form |-> IF days_left > 0 THEN "days" ELSE "hours",
     shown |-> IF days_left > 0 THEN days_left ELSE hours_left]

remaining_hours_of_total(end_v, current_time) ==
    Row(TimeDelta(end_v, current_time).days, (end_v - current_time) \div 3600)

remaining(end_v, current_time) ==
    Row(TimeDelta(end_v, current_time).days, TimeDelta(end_v, current_time).seconds \div 3600)

\* Line 376: days_until.
until(start_v, current_time) == TimeDelta(start_v, current_time).days

\* len(game.get("description", "")) and the slice
DescriptionOk(game) == Get(game, "description", JStr("")).t \in {"str", "list", "obj"}

GamesResult(outcome, exc, free, upcoming, rows, soon) ==
    [outcome |-> outcome, exc |-> exc, free_games |-> free, upcoming_games |-> upcoming,
     rows |-> rows, soon |-> soon]

\* Lines 351-377: the two lists are printed.
RenderGames(gs, acc, current_time) ==
    IF IsRaise(acc) THEN GamesResult("raised", acc.v, <<>>, <<>>, <<>>, <<>>)
    ELSE IF \E k \in 1..Len(acc.free) : ~DescriptionOk(gs[acc.free[k].game])
         THEN GamesResult("raised", "TypeError", acc.free, acc.upcoming, <<>>, <<>>)
    ELSE IF \E k \in 1..Len(acc.upcoming) : k <= 3 /\ ~acc.upcoming[k].dt.aware
         THEN GamesResult("raised", "TypeError", acc.free, acc.upcoming, <<>>, <<>>)
    ELSE GamesResult("rendered", "none", acc.free, acc.upcoming,
             [k \in 1..Len(acc.free) |-> remaining(acc.free[k].dt.v, current_time)],
             [k \in 1..Len(Take(acc.upcoming, 3)) |-> until(acc.upcoming[k].dt.v, current_time)])

ClassifyIter(it, current_time) ==
    IF IsRaise(it) THEN GamesResult("raised", it.v, <<>>, <<>>, <<>>, <<>>)
    ELSE RenderGames(it.v, FoldGames(it.v, 1, current_time, Acc(<<>>, <<>>)), current_time)

\* Lines 318-377 on the decoded "elements" value.
classify_games(elements, current_time) == ClassifyIter(Iter(elements), current_time)

\* Line 317: the chain of .get calls.
Elements(free_games_data) ==
    Get(Get(Get(Get(free_games_data, "data", JObj(<<>>)), "Catalog", JObj(<<>>)),
            "searchStore", JObj(<<>>)), "elements", JList(<<>>))

FreeGamesOf(free_games_data, current_time) ==
    IF IsRaise(free_games_data) THEN GamesResult("raised", free_games_data.v, <<>>, <<>>, <<>>, <<>>)
    ELSE IF ~Truthy(free_games_data) THEN GamesResult("unavailable", "none", <<>>, <<>>, <<>>, <<>>)
    ELSE classify_games(Elements(free_games_data), current_time)

display_free_games(net, current_time) == FreeGamesOf(make_request(net), current_time)

(***************************************************************************)
(* display_api_status: heads[k] is what requests.head does for endpoint k: *)
(* "200", another status, an exception, or KeyboardInterrupt.  The bare    *)
(* except around the call takes all of the last two.                       *)
(***************************************************************************)
API_ENDPOINTS == 5

RECURSIVE WorkingCount(_, _)
WorkingCount(heads, k) ==
    IF k > Len(heads) THEN 0
    ELSE (IF heads[k] = "200" THEN 1 ELSE 0) + WorkingCount(heads, k + 1)

display_api_status(heads) ==
    [outcome |-> "rendered", exc |-> "none", working |-> WorkingCount(heads, 1)]

(***************************************************************************)
(* main: the command line                                                  *)
(***************************************************************************)
\* Python's ints are unbounded, the model's are 32 bits wide: an int of up
\* to INT_DIGITS digits is carried exactly, and Huge stands for every int of
\* 11 digits or more.  All of those lie beyond 9223372036, the largest count
\* of seconds that time.sleep (line 440) can convert to its 64-bit count of
\* nanoseconds; it raises OverflowError for anything larger.  Arguments of
\* exactly 10 digits, or with leading zeros, are not among the samples.
INT_DIGITS == 9
Huge == 1000000000

sleep_overflows(secs) == secs >= Huge

\* int(s) for a str: optional sign and decimal digits, surrounding blanks
\* ignored; [ok |-> FALSE] stands for ValueError.
PyInt(s) ==
    LET b == Strip(s)
        signed == b /= "" /\ SubSeq(b, 1, 1) \in {"+", "-"}
        digits == IF signed THEN SubSeq(b, 2, Len(b)) ELSE b
        magnitude == IF Len(digits) > INT_DIGITS THEN Huge ELSE ParseInt(digits)
    IN IF digits = "" \/ ~AllDigits(digits) THEN [ok |-> FALSE, v |-> 0]
       ELSE [ok |-> TRUE, v |-> IF signed /\ SubSeq(b, 1, 1) = "-" THEN -magnitude ELSE magnitude]

DEFAULT_INTERVAL == 300
MIN_INTERVAL == 10

\* Lines 456-505: what main starts: [mode, interval].
main(argv) ==
    IF Len(argv) >= 1
    THEN IF argv[1] \in {"-h", "--help", "help"} THEN [mode |-> "help", interval |-> 0]
         ELSE IF argv[1] = "--once" THEN [mode |-> "once", interval |-> 0]
         ELSE LET interval == PyInt(argv[1])
              IN IF ~interval.ok THEN [mode |-> "monitor", interval |-> DEFAULT_INTERVAL]
                 ELSE IF interval.v < MIN_INTERVAL THEN [mode |-> "monitor", interval |-> MIN_INTERVAL]
                 ELSE [mode |-> "monitor", interval |-> interval.v]
    ELSE [mode |-> "monitor", interval |-> DEFAULT_INTERVAL]

(***************************************************************************)
(* What the endpoints may answer                                           *)
(***************************************************************************)
Comp(name, status) == JObj([name |-> JStr(name), status |-> JStr(status)])
PageNone == JObj([indicator |-> JStr("none")])

EacStatuses == {"operational", "major_outage", ""}

Summary(comps) == JObj([page |-> PageNone, components |-> JList(comps)])

EacSummary(st) == Summary(<<Comp("Fortnite", "operational"), Comp("Easy Anti-Cheat", st)>>)

SummaryBodies ==
        <<EacSummary("operational"), EacSummary("major_outage"), EacSummary(""),
          Summary(<<Comp("Fortnite - Matchmaking", "degraded_performance")>>),
          Summary(<<Comp("Fortnite", "operational"), JObj([name |-> JStr("EAC")])>>),
          JObj(<<>>),
          JList(<<JNum(1)>>),
          JObj([page |-> PageNone, components |-> JNull]),
          JObj([page |-> JNull, components |-> JList(<<>>)]),
          Summary(<<JObj([name |-> JNull, status |-> JStr("operational")])>>),
          Summary(<<JObj([name |-> JStr("Fortnite"), status |-> JNull])>>),
          Summary(<<JObj([name |-> JStr("Easy Anti-Cheat"), status |-> JNull])>>)>>

ComponentsBodies ==
    <<JObj([components |-> JList(<<Comp("Fortnite", "operational"), Comp("Epic Online Services", "partial_outage")>>)]),
     JObj([components |-> JList([k \in 1..6 |-> Comp("Fortnite", "operational")])]),
     JObj([components |-> JList(<<>>)]),
     JObj([components |-> JNull]),
     JObj([components |-> JStr("none")]),
     JList(<<JNum(1)>>),
     JObj([components |-> JList(<<JObj([name |-> JNull, status |-> JStr("operational")])>>)]),
     JObj([components |-> JList(<<JObj([name |-> JStr("Fortnite"), status |-> JNull])>>)])>>

Update(body) == JObj([body |-> JStr(body)])

Incident(name, status, impact, resolved_at, updates) ==
    JObj([name |-> JStr(name), status |-> JStr(status), impact |-> impact,
          resolved_at |-> resolved_at, incident_updates |-> JList(updates)])

IncidentsBodies ==
    <<JObj([incidents |-> JList(<<
         Incident("Login issues", "investigating", JStr("major"), JNull, <<Update("We are investigating")>>),
         Incident("Store errors", "resolved", JStr("minor"), JStr("2024-01-01T10:00:00.000Z"), <<>>)>>)]),
     JObj([incidents |-> JList(<<
         Incident("Matchmaking", "resolved", JStr("minor"), JStr("2024-01-01T10:00:00.000Z"),
                  <<Update("Easy Anti-Cheat errors are fixed")>>),
         Incident("Store errors", "resolved", JStr("none"), JStr("2024-03-01"), <<>>)>>)]),
     JObj([incidents |-> JList(<<>>)]),
     JObj(<<>>),
     JObj([incidents |-> JNull]),
     JStr("maintenance"),
     JObj([incidents |-> JList(<<
         Incident("Login issues", "investigating", JNull, JNull, <<>>)>>)]),
     JObj([incidents |-> JList(<<
         JObj([name |-> JNull, status |-> JStr("investigating"), impact |-> JStr("minor")])>>)]),
     JObj([incidents |-> JList(<<
         Incident("Store errors", "resolved", JStr("minor"), JNull, <<>>),
         Incident("Login issues", "resolved", JStr("minor"), JStr("2024-03-01T10:00:00.000Z"), <<>>)>>)])>>

Offer(pct, dates) == JObj([discountSetting |-> JObj([discountPercentage |-> JNum(pct)])] @@ dates)
OfferSet(offers) == JObj([promotionalOffers |-> JList(offers)])
Game(title, current, upcoming) ==
    JObj([title |-> JStr(title), description |-> JStr("A game"),
          promotions |-> JObj([promotionalOffers |-> JList(current),
                               upcomingPromotionalOffers |-> JList(upcoming)])])
Catalog(elements) ==
    JObj([data |-> JObj([Catalog |-> JObj([searchStore |-> JObj([elements |-> elements])])])])

Ends(e) == [endDate |-> JStr(e)]
Starts(st) == [startDate |-> JStr(st)]

FreeGamesBodies ==
    <<Catalog(JList(<<Game("Alpha", <<OfferSet(<<Offer(0, Ends("2024-01-05T00:00:00.000Z"))>>)>>, <<>>)>>)),
     Catalog(JList(<<Game("Beta", <<>>, <<OfferSet(<<Offer(0, Starts("2024-01-02T23:00:00.000Z"))>>)>>)>>)),
     Catalog(JList(<<JObj([title |-> JStr("Gamma")])>>)),
     JObj(<<>>),
     Catalog(JNull),
     JObj([data |-> JNull]),
     Catalog(JList(<<Game("Delta", <<OfferSet(<<Offer(0, Ends("TBD"))>>)>>, <<>>),
                     Game("Alpha", <<OfferSet(<<Offer(0, Ends("2024-01-05T00:00:00.000Z"))>>)>>, <<>>)>>)),
     Catalog(JList(<<Game("Eta", <<OfferSet(<<Offer(0, [endDate |-> JNull])>>)>>, <<>>)>>))>>

\* What a GET may do: fail in one of the four ways, be interrupted, or
\* deliver one of the bodies.
NetsOf(bodies) ==
    <<Net("Timeout", JNull), Net("ConnectionError", JNull), Net("HTTPError", JNull),
      Net("JSONDecodeError", JNull), Net("KeyboardInterrupt", JNull)>>
    \o [k \in 1..Len(bodies) |-> Net("ok", bodies[k])]

SummaryNets == NetsOf(SummaryBodies)
ComponentsNets == NetsOf(ComponentsBodies)
IncidentsNets == NetsOf(IncidentsBodies)
FreeGamesNets == NetsOf(FreeGamesBodies)

\* What last_eac_status can hold.
LastValues == {JNull, JStr("unknown")} \cup {JStr(st) : st \in EacStatuses}

\* datetime.now(timezone.utc) at the free-games section: 2024-01-03T00:00:00.
ClockSamples == {2 * 86400}

\* requests.head for the five endpoints: all answer 200, none does, or one
\* of them deviates.
HeadKinds == {"404", "ConnectionError", "KeyboardInterrupt"}
HeadOutcomes ==
    {[k \in 1..API_ENDPOINTS |-> "200"], [k \in 1..API_ENDPOINTS |-> "404"]}
    \cup {[k \in 1..API_ENDPOINTS |-> IF k = d THEN x ELSE "200"] : d \in 1..API_ENDPOINTS, x \in HeadKinds}

\* The sections' results for every answer above, computed once.
Tabulate(f) == IF f = f THEN f ELSE f
SystemStatusResults == Tabulate([i \in 1..Len(SummaryNets) |-> display_system_status(SummaryNets[i])])
ComponentsResults == Tabulate([i \in 1..Len(ComponentsNets) |-> display_components_detailed(ComponentsNets[i])])
AntiCheatResults ==
    Tabulate([i \in 1..Len(SummaryNets), j \in 1..Len(IncidentsNets), last \in LastValues |->
                 display_easy_anticheat_status(SummaryNets[i], IncidentsNets[j], last)])
IncidentResults == Tabulate([i \in 1..Len(IncidentsNets) |-> display_incident_reports(IncidentsNets[i])])
FreeGamesResults ==
    Tabulate([i \in 1..Len(FreeGamesNets), current_time \in ClockSamples |->
                 display_free_games(FreeGamesNets[i], current_time)])

\* Command lines (sys.argv[1:]) with what the usage text of lines 458-489
\* and the messages of lines 498 and 502 promise for each: the mode and the
\* seconds between two cycles.
ArgTable ==
    <<[argv |-> <<>>, mode |-> "monitor", interval |-> 300],
      [argv |-> <<"--help">>, mode |-> "help", interval |-> 0],
      [argv |-> <<"-h">>, mode |-> "help", interval |-> 0],
      [argv |-> <<"help", "60">>, mode |-> "help", interval |-> 0],
      [argv |-> <<"--once">>, mode |-> "once", interval |-> 0],
      [argv |-> <<"5">>, mode |-> "monitor", interval |-> 10],
      [argv |-> <<"0">>, mode |-> "monitor", interval |-> 10],
      [argv |-> <<"-3">>, mode |-> "monitor", interval |-> 10],
      [argv |-> <<" 7 ">>, mode |-> "monitor", interval |-> 10],
      [argv |-> <<"10">>, mode |-> "monitor", interval |-> 10],
      [argv |-> <<"60">>, mode |-> "monitor", interval |-> 60],
      [argv |-> <<"+60", "--once">>, mode |-> "monitor", interval |-> 60],
      [argv |-> <<"abc">>, mode |-> "monitor", interval |-> 300],
      [argv |-> <<"12.5">>, mode |-> "monitor", interval |-> 300],
      [argv |-> <<"">>, mode |-> "monitor", interval |-> 300],
      [argv |-> <<"--ONCE">>, mode |-> "monitor", interval |-> 300],
      [argv |-> <<"10000000000">>, mode |-> "monitor", interval |-> Huge]>>

ArgvSamples == {ArgTable[k].argv : k \in 1..Len(ArgTable)}

(***************************************************************************)
(* The process: main, run_monitoring, run_single_check                     *)
(*                                                                         *)
(* pc is the place in run_single_check / run_monitoring; step describes    *)
(* the section that ran last (what its fetches did, where SIGINT arrived,  *)
(* how it ended, and for the anti-cheat section which of SummaryNets it    *)
(* was given); out lists the outcomes of this cycle's sections so far,  *)
(* each with whether its fetch failed;                                     *)
(* observed is the history of the anti-cheat statuses compared so far.     *)
(***************************************************************************)
MaxCycles == 2

Order == <<"system_status", "components", "anticheat", "incidents", "free_games", "api_status">>
Final == {"returned", "exit0", "exit1", "traceback"}

NoStep == [sec |-> "none", fetch |-> "none", fetch2 |-> "none", sig |-> "none",
           outcome |-> "none", exc |-> "none", change |-> NoChange, observed |-> FALSE,
           summary |-> 0]

\* Lines 444-449, or no handler at all under --once.
Abort(exc) ==
    IF mode = "monitor"
    THEN (IF exc = "KeyboardInterrupt" THEN "exit0" ELSE "exit1")
    ELSE "traceback"

SigOf(kinds) == IF "KeyboardInterrupt" \in kinds THEN "fetch" ELSE "none"

Advance(st, entries, nextpc) ==
    /\ step' = st
    /\ out' = out \o entries
    /\ interrupted' = (interrupted \/ st.sig /= "none")
    /\ pc' = IF st.outcome = "raised" THEN Abort(st.exc) ELSE nextpc

Init ==
    /\ pc = "main"
    /\ mode = "none"
    /\ poll_interval = 0
    /\ cycle = 1
    /\ last_eac_status = JNull
    /\ out = <<>>
    /\ step = NoStep
    /\ observed = <<>>
    /\ interrupted = FALSE
    /\ incidents = <<>> /\ partitioned = [done |-> FALSE] /\ recent = [done |-> FALSE]
    /\ games = <<>> /\ now = 0 /\ classified = [done |-> FALSE]
    /\ comp_list = <<>> /\ keyword_list = <<>> /\ lookup = [done |-> FALSE]

Main ==
    /\ pc = "main"
    /\ \E argv \in ArgvSamples :
          \E m \in {main(argv)} :
             /\ mode' = m.mode
             /\ poll_interval' = m.interval
             /\ pc' = IF m.mode = "help" THEN "returned" ELSE "cycle"
             /\ step' = [NoStep EXCEPT !.sec = "main"] @@ [argv |-> argv]
    /\ UNCHANGED <<cycle, last_eac_status, out, observed, interrupted>>
    /\ UNCHANGED <<incidentVars, gameVars, findVars>>

\* The clear-screen print (monitoring only) and print_banner.
StartCycle ==
    /\ pc = "cycle"
    /\ pc' = "system_status"
    /\ out' = <<>>
    /\ step' = NoStep
    /\ UNCHANGED <<mode, poll_interval, cycle, last_eac_status, observed, interrupted>>
    /\ UNCHANGED <<incidentVars, gameVars, findVars>>

SystemStatus ==
    /\ pc = "system_status"
    /\ \E i \in 1..Len(SummaryNets) :
          \E net \in {SummaryNets[i]}, r \in {SystemStatusResults[i]} :
             Advance([NoStep EXCEPT !.sec = "system_status", !.fetch = net.kind, !.sig = SigOf({net.kind}),
                                    !.outcome = r.outcome, !.exc = r.exc],
                     <<[sec |-> "system_status", failed |-> net.kind \in FetchFailures, outcome |-> r.outcome]>>, "components")
    /\ UNCHANGED <<mode, poll_interval, cycle, last_eac_status, observed>>
    /\ UNCHANGED <<incidentVars, gameVars, findVars>>

ComponentsDetailed ==
    /\ pc = "components"
    /\ \E i \in 1..Len(ComponentsNets) :
          \E net \in {ComponentsNets[i]}, r \in {ComponentsResults[i]} :
             Advance([NoStep EXCEPT !.sec = "components", !.fetch = net.kind, !.sig = SigOf({net.kind}),
                                    !.outcome = r.outcome, !.exc = r.exc],
                     <<[sec |-> "components", failed |-> net.kind \in FetchFailures, outcome |-> r.outcome]>>, "anticheat")
    /\ UNCHANGED <<mode, poll_interval, cycle, last_eac_status, observed>>
    /\ UNCHANGED <<incidentVars, gameVars, findVars>>

AntiCheat ==
    /\ pc = "anticheat"
    /\ \E i \in 1..Len(SummaryNets), j \in 1..Len(IncidentsNets) :
          \E net1 \in {SummaryNets[i]}, net2 \in {IncidentsNets[j]},
             r \in {AntiCheatResults[i, j, last_eac_status]} :
          LET ran2 == r.incidents.outcome /= "notrun"
              raised == r.status.status = "raised" \/ r.incidents.outcome = "raised"
          IN /\ Advance([sec |-> "anticheat", fetch |-> net1.kind,
                         fetch2 |-> IF ran2 THEN net2.kind ELSE "none",
                         sig |-> SigOf({net1.kind} \cup (IF ran2 THEN {net2.kind} ELSE {})),
                         outcome |-> IF raised THEN "raised" ELSE "rendered",
                         exc |-> IF r.status.status = "raised" THEN r.status.exc ELSE r.incidents.exc,
                         change |-> r.status.change, observed |-> r.status.observed,
                         summary |-> i],
                        <<[sec |-> "eac_status", failed |-> net1.kind \in FetchFailures, outcome |-> r.status.status]>>
                        \o (IF ran2 THEN <<[sec |-> "eac_incidents", failed |-> net2.kind \in FetchFailures, outcome |-> r.incidents.outcome]>> ELSE <<>>),
                        "incidents")
             /\ last_eac_status' = r.status.last
             /\ observed' = IF r.status.observed THEN Append(observed, r.status.current.v) ELSE observed
    /\ UNCHANGED <<mode, poll_interval, cycle>>
    /\ UNCHANGED <<incidentVars, gameVars, findVars>>

\* sig "resolved_fmt": SIGINT arrives inside the try block of lines 299-305,
\* whose bare except takes it.
IncidentReports ==
    /\ pc = "incidents"
    /\ \E i \in 1..Len(IncidentsNets), sig \in {"none", "resolved_fmt"} :
          \E net \in {IncidentsNets[i]}, r \in {IncidentResults[i]} :
             /\ sig = "resolved_fmt" => r.outcome = "rendered" /\ r.formats
             /\ Advance([NoStep EXCEPT !.sec = "incidents", !.fetch = net.kind,
                                       !.sig = IF sig = "none" THEN SigOf({net.kind}) ELSE sig,
                                       !.outcome = r.outcome, !.exc = r.exc],
                        <<[sec |-> "incidents", failed |-> net.kind \in FetchFailures, outcome |-> r.outcome]>>, "free_games")
    /\ UNCHANGED <<mode, poll_interval, cycle, last_eac_status, observed>>
    /\ UNCHANGED <<incidentVars, gameVars, findVars>>

FreeGames ==
    /\ pc = "free_games"
    /\ \E i \in 1..Len(FreeGamesNets), current_time \in ClockSamples :
          \E net \in {FreeGamesNets[i]}, r \in {FreeGamesResults[i, current_time]} :
             Advance([NoStep EXCEPT !.sec = "free_games", !.fetch = net.kind, !.sig = SigOf({net.kind}),
                                    !.outcome = r.outcome, !.exc = r.exc],
                     <<[sec |-> "free_games", failed |-> net.kind \in FetchFailures, outcome |-> r.outcome]>>, "api_status")
    /\ UNCHANGED <<mode, poll_interval, cycle, last_eac_status, observed>>
    /\ UNCHANGED <<incidentVars, gameVars, findVars>>

\* sig "head": SIGINT arrives inside requests.head.
ApiStatus ==
    /\ pc = "api_status"
    /\ \E heads \in HeadOutcomes :
          \E r \in {display_api_status(heads)} :
             Advance([NoStep EXCEPT !.sec = "api_status",
                                    !.sig = IF \E k \in 1..Len(heads) : heads[k] = "KeyboardInterrupt"
                                            THEN "head" ELSE "none",
                                    !.outcome = r.outcome, !.exc = r.exc],
                     <<[sec |-> "api_status", failed |-> FALSE, outcome |-> r.outcome]>>,
                     IF mode = "monitor" THEN "footer" ELSE "returned")
    /\ UNCHANGED <<mode, poll_interval, cycle, last_eac_status, observed>>
    /\ UNCHANGED <<incidentVars, gameVars, findVars>>

\* display_footer, then lines 439-442.
Footer ==
    /\ pc = "footer"
    /\ pc' = IF poll_interval > 0 THEN "sleep" ELSE "returned"
    /\ step' = NoStep
    /\ UNCHANGED <<mode, poll_interval, cycle, last_eac_status, out, observed, interrupted>>
    /\ UNCHANGED <<incidentVars, gameVars, findVars>>

\* Line 440: time.sleep(poll_interval) returns and the loop goes round, or
\* it raises OverflowError, which line 447 takes.
Sleep ==
    /\ pc = "sleep"
    /\ IF sleep_overflows(poll_interval)
       THEN /\ step' = [NoStep EXCEPT !.sec = "sleep", !.outcome = "raised", !.exc = "OverflowError"]
            /\ pc' = Abort("OverflowError")
            /\ UNCHANGED cycle
       ELSE /\ cycle < MaxCycles
            /\ pc' = "cycle"
            /\ cycle' = cycle + 1
            /\ UNCHANGED step
    /\ UNCHANGED <<mode, poll_interval, last_eac_status, out, observed, interrupted>>
    /\ UNCHANGED <<incidentVars, gameVars, findVars>>

\* SIGINT while a print outside any try block runs (the banner, a section
\* header, the footer), or during time.sleep: KeyboardInterrupt propagates.
Interrupt ==
    /\ pc \in {"cycle", "system_status", "components", "anticheat", "incidents", "free_games",
               "api_status", "footer", "sleep"}
    /\ step' = [NoStep EXCEPT !.sec = pc, !.sig = IF pc = "sleep" THEN "sleep" ELSE "print",
                              !.outcome = "raised", !.exc = "KeyboardInterrupt"]
    /\ interrupted' = TRUE
    /\ pc' = Abort("KeyboardInterrupt")
    /\ UNCHANGED <<mode, poll_interval, cycle, last_eac_status, out, observed>>
    /\ UNCHANGED <<incidentVars, gameVars, findVars>>

Next ==
    \/ Main \/ StartCycle \/ SystemStatus \/ ComponentsDetailed \/ AntiCheat
    \/ IncidentReports \/ FreeGames \/ ApiStatus \/ Footer \/ Sleep \/ Interrupt

Spec == Init /\ [][Next]_vars

(***************************************************************************)
(* Properties of the monitoring cycle                                      *)
(***************************************************************************)
\* The section run_single_check calls after sec.
SectionAfter(sec) ==
    CASE sec = "system_status" -> "components"
      [] sec = "components" -> "anticheat"
      [] sec = "anticheat" -> "incidents"
      [] sec = "incidents" -> "free_games"
      [] sec = "free_games" -> "api_status"

\* C1: a GET that times out, cannot connect, answers with an HTTP error
\* status or carries a body that is not JSON makes make_request return None
\* without raising; the section that asked for it ends "unavailable" with
\* nothing derived from the data (for the anti-cheat section: the half that
\* asked, with no status compared or stored, and its other half still runs),
\* and the next section of run_single_check is the one executed next.
C1_FetchFailureIsolated ==
    /\ \A kind \in FetchFailures : make_request(Net(kind, JNull)) = JNull
    /\ \A k \in 1..Len(out) : out[k].failed => out[k].outcome = "unavailable"
    /\ (step.sec \in {"system_status", "components", "incidents", "free_games"}
        /\ step.fetch \in FetchFailures)
       => /\ step.outcome = "unavailable"
          /\ out[Len(out)] = [sec |-> step.sec, failed |-> TRUE, outcome |-> "unavailable"]
          /\ pc = SectionAfter(step.sec)
    /\ (step.sec = "anticheat" /\ step.fetch \in FetchFailures)
       => /\ \E k \in 1..Len(out) : out[k] = [sec |-> "eac_status", failed |-> TRUE, outcome |-> "unavailable"]
          /\ step.change = NoChange /\ ~step.observed
          /\ step.fetch2 /= "none"
    /\ (step.sec = "anticheat" /\ step.fetch2 \in FetchFailures)
       => /\ out[Len(out)] = [sec |-> "eac_incidents", failed |-> TRUE, outcome |-> "unavailable"]
          /\ pc = "incidents"

\* The incidents fetch failed, its section said so, and the free-games
\* section of the same cycle has rendered.
C1_Witness ==
    /\ step.sec = "free_games" /\ step.fetch = "ok" /\ step.outcome = "rendered"
    /\ pc = "api_status"
    /\ \E k \in 1..Len(out) : out[k] = [sec |-> "incidents", failed |-> TRUE, outcome |-> "unavailable"]

\* C2: a response that is JSON of an unexpected shape stays inside the
\* section that fetched it: with no interrupt signal involved no exception
\* leaves a section, so the next section runs and monitoring goes on.
C2_MalformedConfined ==
    (step.sec \in {"system_status", "components", "anticheat", "incidents", "free_games"}
     /\ step.sig = "none")
    => /\ step.outcome /= "raised"
       /\ pc = SectionAfter(step.sec)

\* C3: once an interrupt signal has arrived during continuous monitoring,
\* the process has exited with status 0: no section or cycle runs after it.
C3_InterruptExitsZero == (mode = "monitor" /\ interrupted) => pc = "exit0"

\* C4: whenever the anti-cheat section has observed the component, a change
\* is reported exactly when this is not the first observation and the status
\* differs from the one observed before; the change names both; and the
\* stored status is the one just observed.
C4_TransitionIffChanged ==
    (step.sec = "anticheat" /\ step.observed)
    => /\ (step.change /= NoChange)
          <=> (Len(observed) > 1 /\ observed[Len(observed)] /= observed[Len(observed) - 1])
       /\ (step.change /= NoChange)
          => step.change = <<JStr(observed[Len(observed) - 1]), JStr(observed[Len(observed)])>>
       /\ last_eac_status = JStr(observed[Len(observed)])

(***************************************************************************)
(* The incident report on its own: the list the incidents endpoint         *)
(* delivers grows one record at a time, then lines 261-305 run on it.      *)
(***************************************************************************)
MaxIncidents == 3

Inc(name, status, resolved_at) ==
    JObj([name |-> JStr(name), impact |-> JStr("minor"), incident_updates |-> JList(<<>>)]
         @@ status @@ resolved_at)

Status(st) == [status |-> JStr(st)]
ResolvedAt(v) == [resolved_at |-> v]
Missing == <<>>

IncidentSamples ==
    <<Inc("Login issues", Status("investigating"), ResolvedAt(JNull)),
      Inc("Store errors", Status("resolved"), ResolvedAt(JNull)),
      Inc("Matchmaking", Status("resolved"), ResolvedAt(JStr("2024-01-01T10:00:00.000Z"))),
      Inc("Friends list", Status("resolved"), ResolvedAt(JStr("2024-03-01T10:00:00.000Z"))),
      Inc("Voice chat", Status("monitoring"), ResolvedAt(JStr("2024-03-01T10:00:00.000Z"))),
      Inc("Item shop", Status("resolved"), Missing),
      Inc("Launcher", Status("identified"), ResolvedAt(JStr(""))),
      Inc("Cloud saves", Missing, Missing)>>

InitIncidents ==
    /\ pc = "incidents" /\ mode = "once" /\ poll_interval = 0 /\ cycle = 1
    /\ last_eac_status = JNull /\ out = <<>> /\ step = NoStep /\ observed = <<>>
    /\ interrupted = FALSE
    /\ incidents = <<>> /\ partitioned = [done |-> FALSE] /\ recent = [done |-> FALSE]
    /\ games = <<>> /\ now = 0 /\ classified = [done |-> FALSE]
    /\ comp_list = <<>> /\ keyword_list = <<>> /\ lookup = [done |-> FALSE]

\* One more record in the "incidents" array of the response.
ReceiveIncident ==
    /\ ~partitioned.done
    /\ Len(incidents) < MaxIncidents
    /\ \E k \in 1..Len(IncidentSamples) : incidents' = Append(incidents, IncidentSamples[k])
    /\ UNCHANGED <<partitioned, recent, monitorVars, gameVars, findVars>>

\* Lines 261-305 on the list received.
ReportIncidents ==
    /\ ~partitioned.done
    /\ \E r \in {report_incidents(JList(incidents))} :
          /\ partitioned' = [done |-> TRUE, active |-> r.active, resolved |-> r.resolved]
          /\ recent' = [done |-> TRUE, outcome |-> r.outcome, exc |-> r.exc, result |-> r.recent]
    /\ UNCHANGED <<incidents, monitorVars, gameVars, findVars>>

NextIncidents == ReceiveIncident \/ ReportIncidents

SpecIncidents == InitIncidents /\ [][NextIncidents]_vars

\* resolvedAt is absent: no such key, null, or the empty string.
ResolvedAtAbsent(i) ==
    \/ "resolved_at" \notin DOMAIN i.v
    \/ i.v.resolved_at = JNull
    \/ i.v.resolved_at = JStr("")

StatusIs(i, st) == "status" \in DOMAIN i.v /\ i.v.status = JStr(st)

ActiveByRule(i) == ResolvedAtAbsent(i) /\ ~StatusIs(i, "resolved")
ResolvedByRule(i) == ~ActiveByRule(i)

\* C5: the active list is the input restricted to the incidents whose
\* resolvedAt is absent and whose status is not "resolved", the resolved list
\* is the input restricted to all the others, both in input order; so every
\* incident is in exactly one of the two.
C5_IncidentPartition ==
    partitioned.done
    => /\ partitioned.active = SelectSeq(incidents, ActiveByRule)
       /\ partitioned.resolved = SelectSeq(incidents, ResolvedByRule)
       /\ Len(partitioned.active) + Len(partitioned.resolved) = Len(incidents)

\* An "investigating" incident with resolved_at null is in the active list
\* and a "resolved" one with resolved_at null in the resolved list.
C5_Witness ==
    /\ partitioned.done
    /\ \E k \in 1..Len(partitioned.active) :
          /\ StatusIs(partitioned.active[k], "investigating")
          /\ partitioned.active[k].v.resolved_at = JNull
    /\ \E k \in 1..Len(partitioned.resolved) :
          /\ StatusIs(partitioned.resolved[k], "resolved")
          /\ partitioned.resolved[k].v.resolved_at = JNull

\* The resolvedAt an incident sorts by: a missing or null one is the empty
\* string, the earliest value.
ResolvedKey(i) ==
    IF "resolved_at" \in DOMAIN i.v /\ i.v.resolved_at.t = "str" THEN i.v.resolved_at.v ELSE ""

\* The place of the j-th resolved incident in descending order of
\* resolvedAt, equal ones in input order.
RankDesc(res, j) ==
    1 + Cardinality({m \in 1..Len(res) :
                        \/ StrLess(ResolvedKey(res[j]), ResolvedKey(res[m]))
                        \/ (ResolvedKey(res[m]) = ResolvedKey(res[j]) /\ m < j)})

\* C6: for every list of resolved incidents the recent ones are computed
\* without failure and are the first three in descending order of resolvedAt,
\* a missing or null resolvedAt ordering as the earliest value and equal
\* ones keeping their input order.
C6_RecentResolved ==
    recent.done
    => /\ recent.outcome = "rendered"
       /\ Len(recent.result) = (IF Len(partitioned.resolved) < RESOLVED_LIMIT
                                THEN Len(partitioned.resolved) ELSE RESOLVED_LIMIT)
       /\ \A j \in 1..Len(partitioned.resolved) :
             RankDesc(partitioned.resolved, j) <= RESOLVED_LIMIT
             => recent.result[RankDesc(partitioned.resolved, j)] = partitioned.resolved[j]

(***************************************************************************)
(* The free-games classification on its own: the "elements" array grows    *)
(* one game at a time, then lines 318-377 run on it.                       *)
(***************************************************************************)
MaxGames == 2

\* The date strings the offers carry, with the instant each denotes in
\* seconds from 2024-01-01T00:00:00Z: "utc" is a well-formed UTC timestamp,
\* "naive" one without a zone, "bad" not a timestamp.
DateTable ==
    <<[s |-> "2024-01-05T00:00:00.000Z", kind |-> "utc", v |-> 345600],
      [s |-> "2024-01-03T15:00:00.000Z", kind |-> "utc", v |-> 226800],
      [s |-> "2024-01-02T23:00:00.000Z", kind |-> "utc", v |-> 169200],
      [s |-> "2024-01-03T00:00:00.000Z", kind |-> "utc", v |-> 172800],
      [s |-> "2024-01-10T16:00:00+02:00", kind |-> "utc", v |-> 828000],
      [s |-> "2024-02-29T23:59:59Z", kind |-> "utc", v |-> 5183999],
      [s |-> "2024-01-05T00:00:00", kind |-> "naive", v |-> 345600],
      [s |-> "TBD", kind |-> "bad", v |-> 0],
      [s |-> "2024-13-01T00:00:00.000Z", kind |-> "bad", v |-> 0]>>

GameSamples ==
    <<Game("Alpha", <<OfferSet(<<Offer(0, Ends(DateTable[1].s))>>)>>, <<>>),
      Game("Beta", <<OfferSet(<<Offer(0, Ends(DateTable[2].s))>>)>>,
                   <<OfferSet(<<Offer(0, Starts(DateTable[3].s))>>)>>),
      Game("Gamma", <<OfferSet(<<Offer(0, Ends(DateTable[1].s)), Offer(0, Ends(DateTable[5].s))>>)>>, <<>>),
      Game("Delta", <<OfferSet(<<Offer(50, Ends(DateTable[1].s))>>), OfferSet(<<Offer(0, Ends(DateTable[3].s))>>)>>,
                    <<OfferSet(<<Offer(50, Starts(DateTable[1].s))>>)>>),
      Game("Epsilon", <<OfferSet(<<Offer(0, Ends(DateTable[4].s))>>)>>,
                      <<OfferSet(<<Offer(0, Starts(DateTable[4].s))>>)>>),
      Game("Zeta", <<OfferSet(<<Offer(0, <<>>)>>)>>, <<OfferSet(<<Offer(0, Starts(""))>>)>>),
      Game("Eta", <<OfferSet(<<Offer(0, Ends(DateTable[8].s))>>)>>, <<>>),
      Game("Theta", <<>>, <<OfferSet(<<Offer(0, Starts(DateTable[9].s))>>),
                            OfferSet(<<Offer(0, Starts(DateTable[1].s))>>)>>),
      JObj([title |-> JStr("Iota")]),
      JObj([title |-> JStr("Kappa"), promotions |-> JNull]),
      Game("Lambda", <<>>, <<OfferSet(<<Offer(0, Starts(DateTable[1].s)), Offer(0, Starts(DateTable[5].s))>>)>>),
      Game("Mu", <<OfferSet(<<Offer(0, Ends(DateTable[7].s))>>)>>, <<>>),
      Game("Nu", <<OfferSet(<<JObj(Ends(DateTable[6].s))>>)>>, <<>>),
      Game("Xi", <<OfferSet(<<Offer(0, [endDate |-> JNull])>>)>>,
                 <<OfferSet(<<Offer(0, Starts(DateTable[2].s))>>)>>)>>

\* datetime.now(timezone.utc): 2024-01-03 at 00:00:00, 00:00:01, 12:30:00 or
\* 14:59:59 UTC.
GameClocks == {172800, 172801, 217800, 226799}

InitGames ==
    /\ pc = "free_games" /\ mode = "once" /\ poll_interval = 0 /\ cycle = 1
    /\ last_eac_status = JNull /\ out = <<>> /\ step = NoStep /\ observed = <<>>
    /\ interrupted = FALSE
    /\ incidents = <<>> /\ partitioned = [done |-> FALSE] /\ recent = [done |-> FALSE]
    /\ games = <<>> /\ now = 0 /\ classified = [done |-> FALSE]
    /\ comp_list = <<>> /\ keyword_list = <<>> /\ lookup = [done |-> FALSE]

\* One more game in the "elements" array of the response.
ReceiveGame ==
    /\ ~classified.done
    /\ Len(games) < MaxGames
    /\ \E k \in 1..Len(GameSamples) : games' = Append(games, GameSamples[k])
    /\ UNCHANGED <<now, classified, monitorVars, incidentVars, findVars>>

\* Lines 318-377: the clock is read and the games are classified and shown.
ClassifyGames ==
    /\ ~classified.done
    /\ \E current_time \in GameClocks :
          /\ now' = current_time
          /\ classified' = [done |-> TRUE, r |-> classify_games(JList(games), current_time)]
    /\ UNCHANGED <<games, monitorVars, incidentVars, findVars>>

NextGames == ReceiveGame \/ ClassifyGames

SpecGames == InitGames /\ [][NextGames]_vars

(***************************************************************************)
(* Properties of the classification, stated on the catalog itself          *)
(***************************************************************************)
RECURSIVE FlattenSets(_)
FlattenSets(sets) ==
    IF sets = <<>> THEN <<>> ELSE Head(sets).v.promotionalOffers.v \o FlattenSets(Tail(sets))

\* The offers of a game's promotionalOffers / upcomingPromotionalOffers
\* sets, flattened; none for a game without promotions.
OffersIn(game, field) ==
    IF "promotions" \in DOMAIN game.v /\ game.v.promotions.t = "obj"
    THEN FlattenSets(game.v.promotions.v[field].v)
    ELSE <<>>

Pct(offer) ==
    IF "discountSetting" \in DOMAIN offer.v THEN offer.v.discountSetting.v.discountPercentage.v ELSE 0

\* The offer's date string under key, "" when missing, null or empty.
DateOf(offer, key) == IF key \in DOMAIN offer.v /\ offer.v[key].t = "str" THEN offer.v[key].v ELSE ""

DateEntry(s) == DateTable[CHOOSE k \in 1..Len(DateTable) : DateTable[k].s = s]
DateKind(s) == IF s = "" THEN "absent" ELSE DateEntry(s).kind
Instants == {DateTable[k].v : k \in {j \in 1..Len(DateTable) : DateTable[j].kind = "utc"}}

\* The zero-discount offers of the game under field whose date is a
\* well-formed UTC timestamp denoting instant v.
ZeroAt(game, field, key, v) ==
    {k \in 1..Len(OffersIn(game, field)) :
        /\ Pct(OffersIn(game, field)[k]) = 0
        /\ DateKind(DateOf(OffersIn(game, field)[k], key)) = "utc"
        /\ DateEntry(DateOf(OffersIn(game, field)[k], key)).v = v}

ZeroOffers(game, field) == {k \in 1..Len(OffersIn(game, field)) : Pct(OffersIn(game, field)[k]) = 0}

\* The kinds of date the zero-discount offers of the catalog carry.
DateKinds(gs) ==
    UNION {{DateKind(DateOf(OffersIn(gs[g], "promotionalOffers")[k], "endDate")) :
               k \in ZeroOffers(gs[g], "promotionalOffers")}
           \cup {DateKind(DateOf(OffersIn(gs[g], "upcomingPromotionalOffers")[k], "startDate")) :
                    k \in ZeroOffers(gs[g], "upcomingPromotionalOffers")} : g \in 1..Len(gs)}

PairsAt(list, g, v) == {k \in 1..Len(list) : list[k].game = g /\ list[k].dt.v = v}
PairsOf(list, g) == {k \in 1..Len(list) : list[k].game = g}

\* Every pair of the list names a game of the catalog and a UTC instant.
PairsSound(list) ==
    \A k \in 1..Len(list) :
        list[k].game \in 1..Len(games) /\ list[k].dt.aware /\ list[k].dt.v \in Instants

\* currentFree holds one pair per zero-discount offer whose end lies ahead.
CurrentFreeExact ==
    /\ PairsSound(classified.r.free_games)
    /\ \A g \in 1..Len(games), v \in Instants :
          Cardinality(PairsAt(classified.r.free_games, g, v))
          = (IF v > now THEN Cardinality(ZeroAt(games[g], "promotionalOffers", "endDate", v)) ELSE 0)

\* upcomingFree holds one pair per zero-discount offer with a start date.
UpcomingFreeExact ==
    /\ PairsSound(classified.r.upcoming_games)
    /\ \A g \in 1..Len(games), v \in Instants :
          Cardinality(PairsAt(classified.r.upcoming_games, g, v))
          = Cardinality(ZeroAt(games[g], "upcomingPromotionalOffers", "startDate", v))

\* C7: in a catalog whose zero-discount offers carry well-formed UTC dates
\* (or none), each offer of a game's promotionalOffers sets puts the pair
\* (game, endDate) into currentFree once iff its discountPercentage is 0 and
\* its endDate is after now, so a game with k such offers has k pairs; an
\* offer with another discountPercentage puts a pair into neither list.
C7_CurrentFree ==
    (classified.done /\ DateKinds(games) \subseteq {"absent", "utc"})
    => /\ classified.r.outcome = "rendered"
       /\ CurrentFreeExact
       /\ \A g \in 1..Len(games) :
             Cardinality(PairsOf(classified.r.upcoming_games, g))
             <= Cardinality(ZeroOffers(games[g], "upcomingPromotionalOffers"))

\* One game has two pairs in currentFree, and another, with a 50% offer and
\* an expired zero-discount offer, has none.
C7_Witness ==
    /\ classified.done /\ classified.r.outcome = "rendered"
    /\ \E g \in 1..Len(games) : Cardinality(PairsOf(classified.r.free_games, g)) = 2
    /\ \E g \in 1..Len(games) :
          /\ \E k \in 1..Len(OffersIn(games[g], "promotionalOffers")) :
                Pct(OffersIn(games[g], "promotionalOffers")[k]) = 50
          /\ \E v \in Instants : v <= now /\ ZeroAt(games[g], "promotionalOffers", "endDate", v) /= {}
          /\ PairsOf(classified.r.free_games, g) = {}
          /\ PairsOf(classified.r.upcoming_games, g) = {}

\* C8: a zero-discount offer whose endDate or startDate is missing, empty
\* or not a timestamp is left out of its list and nothing else changes: the
\* section completes and both lists hold exactly the other qualifying offers.
C8_BadDateExcluded ==
    (classified.done /\ DateKinds(games) \subseteq {"absent", "utc", "bad"})
    => /\ classified.r.outcome = "rendered"
       /\ CurrentFreeExact
       /\ UpcomingFreeExact

\* C9: in a catalog whose zero-discount offers carry well-formed UTC dates
\* (or none), every zero-discount offer of a game's upcomingPromotionalOffers
\* sets with a startDate is in upcomingFree, whatever now is, and the days
\* shown for the first three are the floor of (startDate - now) / 1 day.
C9_UpcomingFree ==
    (classified.done /\ DateKinds(games) \subseteq {"absent", "utc"})
    => /\ classified.r.outcome = "rendered"
       /\ UpcomingFreeExact
       /\ Len(classified.r.soon) = (IF Len(classified.r.upcoming_games) < 3
                                    THEN Len(classified.r.upcoming_games) ELSE 3)
       /\ \A k \in 1..Len(classified.r.soon) :
             /\ classified.r.soon[k] * 86400 <= classified.r.upcoming_games[k].dt.v - now
             /\ classified.r.upcoming_games[k].dt.v - now < (classified.r.soon[k] + 1) * 86400

\* An upcoming offer started before now, its days are negative, and its
\* game is in currentFree as well.
C9_Witness ==
    /\ classified.done /\ classified.r.outcome = "rendered"
    /\ \E k \in 1..Len(classified.r.soon) :
          /\ classified.r.upcoming_games[k].dt.v < now
          /\ classified.r.soon[k] < 0
          /\ PairsOf(classified.r.free_games, classified.r.upcoming_games[k].game) /= {}

\* The row of the k-th current free game agrees with the seconds d that
\* remain until its end.
RowAgrees(row, d) ==
    /\ d > 0
    /\ row.days * 86400 <= d /\ d < (row.days + 1) * 86400
    /\ row.hours * 3600 <= d - row.days * 86400 /\ d - row.days * 86400 < (row.hours + 1) * 3600
    /\ 0 <= row.hours /\ row.hours < 24
    /\ (row.days * 24 + row.hours) * 3600 <= d /\ d < (row.days * 24 + row.hours + 1) * 3600
    /\ (row.days = 0) <=> (d < 86400)
    /\ (row.form = "hours") <=> (row.days = 0)
    /\ row.shown = (IF row.days = 0 THEN row.hours ELSE row.days)
    /\ (d = 2 * 86400) => row.days = 2

\* C10: for every current free game shown, days is the floor of the
\* remaining time over one day and hours the floor of the rest over one
\* hour, so 0 <= hours < 24 and days*24 + hours is the floor of the remaining
\* hours; the "hours" form with hours is used exactly when days is 0, the
\* "days" form otherwise; an end two days ahead gives days = 2.
C10_Remaining ==
    (classified.done /\ classified.r.outcome = "rendered")
    => /\ Len(classified.r.rows) = Len(classified.r.free_games)
       /\ \A k \in 1..Len(classified.r.rows) :
             RowAgrees(classified.r.rows[k], classified.r.free_games[k].dt.v - now)

\* One game ends exactly two days ahead and shows 2 days; another ends in
\* less than a day and shows hours.
C10_Witness ==
    /\ classified.done /\ classified.r.outcome = "rendered"
    /\ \E k \in 1..Len(classified.r.rows) :
          /\ classified.r.free_games[k].dt.v - now = 2 * 86400
          /\ classified.r.rows[k].days = 2 /\ classified.r.rows[k].form = "days"
    /\ \E k \in 1..Len(classified.r.rows) :
          /\ classified.r.rows[k].form = "hours"
          /\ classified.r.rows[k].shown > 0

(***************************************************************************)
(* get_component_by_keywords on its own: a component list and a keyword    *)
(* list are put together, then lines 86-92 run on them.                    *)
(***************************************************************************)
MaxComponents == 3
MaxKeywords == 2

\* Component names as the API spells them, with the trimmed lower-case
\* form of each.
NameTable ==
    <<[raw |-> "Fortnite - Matchmaking", norm |-> "fortnite - matchmaking"],
      [raw |-> "  FORTNITE  ", norm |-> "fortnite"],
      [raw |-> "Epic Games Store\t", norm |-> "epic games store"],
      [raw |-> "Xbox Live", norm |-> "xbox live"]>>

\* Keywords with the lower-case form of each.
KeywordTable ==
    <<[raw |-> "fortnite", norm |-> "fortnite"],
      [raw |-> "XBOX", norm |-> "xbox"],
      [raw |-> "Store", norm |-> "store"],
      [raw |-> "matchmaking ", norm |-> "matchmaking "]>>

ComponentSamples ==
    [k \in 1..Len(NameTable) |-> Comp(NameTable[k].raw, "operational")]
    \o <<JObj([status |-> JStr("major_outage")])>>

InitFind ==
    /\ pc = "system_status" /\ mode = "once" /\ poll_interval = 0 /\ cycle = 1
    /\ last_eac_status = JNull /\ out = <<>> /\ step = NoStep /\ observed = <<>>
    /\ interrupted = FALSE
    /\ incidents = <<>> /\ partitioned = [done |-> FALSE] /\ recent = [done |-> FALSE]
    /\ games = <<>> /\ now = 0 /\ classified = [done |-> FALSE]
    /\ comp_list = <<>> /\ keyword_list = <<>> /\ lookup = [done |-> FALSE]

\* One more record in the "components" array of the response.
ReceiveComponent ==
    /\ ~lookup.done
    /\ Len(comp_list) < MaxComponents
    /\ \E k \in 1..Len(ComponentSamples) : comp_list' = Append(comp_list, ComponentSamples[k])
    /\ UNCHANGED <<keyword_list, lookup, monitorVars, incidentVars, gameVars>>

\* One more keyword in the list the caller passes.
AddKeyword ==
    /\ ~lookup.done
    /\ Len(keyword_list) < MaxKeywords
    /\ \E k \in 1..Len(KeywordTable) : keyword_list' = Append(keyword_list, KeywordTable[k].raw)
    /\ UNCHANGED <<comp_list, lookup, monitorVars, incidentVars, gameVars>>

\* Lines 86-92.
FindComponent ==
    /\ ~lookup.done
    /\ lookup' = [done |-> TRUE, result |-> get_component_by_keywords(JList(comp_list), keyword_list)]
    /\ UNCHANGED <<comp_list, keyword_list, monitorVars, incidentVars, gameVars>>

NextFind == ReceiveComponent \/ AddKeyword \/ FindComponent

SpecFind == InitFind /\ [][NextFind]_vars

\* sub occurs in s.
Substring(sub, s) == \E i \in 0..(Len(s) - Len(sub)) : SubSeq(s, i + 1, i + Len(sub)) = sub

NormName(comp) ==
    IF "name" \in DOMAIN comp.v
    THEN NameTable[CHOOSE k \in 1..Len(NameTable) : NameTable[k].raw = comp.v.name.v].norm
    ELSE ""

NormKeyword(kw) == KeywordTable[CHOOSE k \in 1..Len(KeywordTable) : KeywordTable[k].raw = kw].norm

MatchesAny(comp, kws) == \E k \in 1..Len(kws) : Substring(NormKeyword(kws[k]), NormName(comp))

\* The component of smallest index that matches, or None.
FirstMatch(comps, kws) ==
    IF \E i \in 1..Len(comps) : MatchesAny(comps[i], kws)
    THEN comps[CHOOSE i \in 1..Len(comps) :
                   /\ MatchesAny(comps[i], kws)
                   /\ \A j \in 1..(i - 1) : ~MatchesAny(comps[j], kws)]
    ELSE JNull

\* The keyword list in every order.
Reorderings(kws) ==
    {[i \in 1..Len(kws) |-> kws[p[i]]] : p \in Permutations(1..Len(kws))}

\* C11: the search returns the component of smallest index whose trimmed
\* lower-case name contains the lower-case form of some keyword, None when
\* there is none (so for an empty list), the same for every order of the
\* keywords, and leaves the component list as it was.
C11_FindComponent ==
    [][(lookup'.done /\ ~lookup.done)
       => /\ lookup'.result = FirstMatch(comp_list, keyword_list)
          /\ \A kws \in Reorderings(keyword_list) :
                get_component_by_keywords(JList(comp_list), kws) = lookup'.result
          /\ comp_list' = comp_list]_vars

\* "Fortnite - Matchmaking" comes after a component that does not match and
\* before another that does, and is the one returned, through a keyword that
\* is not all lower case or through one after a keyword that matches nothing.
C11_Witness ==
    /\ lookup.done
    /\ Len(comp_list) = 3 /\ Len(keyword_list) = 2
    /\ NormName(comp_list[1]) = "xbox live"
    /\ NormName(comp_list[2]) = "fortnite - matchmaking"
    /\ NormName(comp_list[3]) = "fortnite"
    /\ keyword_list = <<"matchmaking ", "fortnite">>
    /\ lookup.result = comp_list[2]

(***************************************************************************)
(* The command line and the loop of run_monitoring                         *)
(***************************************************************************)
\* The table's row for the command line main has just read.
ArgRow == CHOOSE k \in 1..Len(ArgTable) : ArgTable[k].argv = step.argv

\* C12: an integer argument n starts monitoring with an interval of
\* max(n, 10) seconds, a non-integer argument or none starts it with 300;
\* so while monitoring the interval is at least 10, line 442 is never
\* reached and a sleep that no signal interrupts is followed by the next
\* cycle; --once runs one cycle and never reaches the footer or the sleep;
\* help returns at once with no section run.
C12_PollInterval ==
    /\ step.sec = "main"
       => /\ mode = ArgTable[ArgRow].mode
          /\ poll_interval = ArgTable[ArgRow].interval
    /\ mode = "monitor"
       => /\ poll_interval >= MIN_INTERVAL
          /\ pc /= "returned"
          /\ (step.sec = "sleep" /\ step.sig = "none") => pc \notin Final
    /\ mode = "once" => cycle = 1 /\ pc \notin {"footer", "sleep"}
    /\ mode = "help" => pc = "returned" /\ out = <<>> /\ step.sec = "main"

(***************************************************************************)
(* The last-status slot                                                    *)
(***************************************************************************)
\* The answers of the summary endpoint in which the anti-cheat component is
\* there with a status that can be shown, and the status each one carries.
EacObservedTable ==
    <<[net |-> Net("ok", EacSummary("operational")), status |-> "operational"],
      [net |-> Net("ok", EacSummary("major_outage")), status |-> "major_outage"],
      [net |-> Net("ok", EacSummary("")), status |-> ""],
      [net |-> Net("ok", Summary(<<Comp("Fortnite", "operational"), JObj([name |-> JStr("EAC")])>>)),
       status |-> "unknown"]>>

\* The status answer number i of SummaryNets carries for the component, if any.
StatusCarried(i) ==
    IF i = 0 THEN {}
    ELSE {EacObservedTable[k].status :
             k \in {n \in 1..Len(EacObservedTable) : EacObservedTable[n].net = SummaryNets[i]}}

\* C13 as stated: every cycle's anti-cheat section that ends without raising
\* has written the slot with a status it observed, so that every cycle after
\* the first starts with the status observed in the cycle before it.
C13_WrittenEveryCycle ==
    /\ (step.sec = "anticheat" /\ step.summary > 0 /\ step.outcome /= "raised")
       => /\ step.observed
          /\ last_eac_status = JStr(observed[Len(observed)])
    /\ (pc = "cycle" /\ cycle > 1)
       => /\ Len(observed) = cycle - 1
          /\ last_eac_status = JStr(observed[cycle - 1])

\* C13, amended: the slot is written by the anti-cheat section alone, at
\* most once in a cycle: when the summary it fetched carries the component
\* with a status, the slot takes that status, after the comparison has seen
\* the value held before; every other step (a failed fetch, no component
\* found, an exception, every other section, the sleep) leaves it alone.  So
\* the slot always holds the status observed last, or None before the first.
C13_SlotWrittenWhenObserved ==
    [][/\ IF pc = "anticheat" /\ StatusCarried(step'.summary) /= {}
          THEN /\ \A st \in StatusCarried(step'.summary) : last_eac_status' = JStr(st)
               /\ observed' = Append(observed, last_eac_status'.v)
               /\ step'.observed
               /\ step'.change \in {NoChange, <<last_eac_status, last_eac_status'>>}
          ELSE /\ last_eac_status' = last_eac_status
               /\ observed' = observed
       /\ Len(observed') <= cycle'
       /\ last_eac_status' = IF observed' = <<>> THEN JNull ELSE JStr(observed'[Len(observed')])]_vars

\* The second cycle's summary fetch timed out: the slot still holds the
\* status the first cycle observed.
C13_Witness ==
    /\ cycle = 2 /\ pc = "incidents"
    /\ step.sec = "anticheat" /\ step.fetch = "Timeout" /\ ~step.observed
    /\ observed = <<"operational">>
    /\ last_eac_status = JStr("operational")
====
